---- MODULE Spec2Model ----
(***************************************************************************)
(* Model of facturas-orc/procesador_facturas.py: the line loop of          *)
(* reconocer_factura (column detection, total detection, detail            *)
(* extraction), normalizar_monto, and the per-document report entry of     *)
(* procesar_lote_facturas.                                                 *)
(*                                                                         *)
(* A text is a sequence of one-character strings, so that replace, split,  *)
(* lower and the substring test `in` are computed as Python computes them. *)
(* A Decimal is a record: [k |-> "fin", c, e] is c * 10^e; the special     *)
(* values are [k |-> "inf", s], [k |-> "nan"], [k |-> "snan"].             *)
(***************************************************************************)
EXTENDS Integers, Sequences, FiniteSets, TLC

(* ---------------------------------------------------------------------- *)
(* Bounds                                                                  *)
(* ---------------------------------------------------------------------- *)
MaxLineas == 3

(* ---------------------------------------------------------------------- *)
(* Text helpers (str methods used by the source)                           *)
(* ---------------------------------------------------------------------- *)
None == [k |-> "None"]

Mayusculas == <<"A","B","C","D","E","F","G","H","I","J","K","L","M","N","O","P","Q","R","S","T","U","V","W","X","Y","Z","Ó">>
Minusculas == <<"a","b","c","d","e","f","g","h","i","j","k","l","m","n","o","p","q","r","s","t","u","v","w","x","y","z","ó">>

\* the lower-case letter of every upper-case letter
MinusculaDe ==
  [ch \in {Mayusculas[n] : n \in 1..Len(Mayusculas)} |->
     Minusculas[CHOOSE n \in 1..Len(Mayusculas) : Mayusculas[n] = ch]]

LowerChar(ch) == IF ch \in DOMAIN MinusculaDe THEN MinusculaDe[ch] ELSE ch

\* str.lower()
Lower(s) == [n \in 1..Len(s) |-> LowerChar(s[n])]

\* `sub in s` for strings
Contains(s, sub) ==
  \E n \in 0..(Len(s) - Len(sub)) : SubSeq(s, n + 1, n + Len(sub)) = sub

\* str.replace(old, new) for a one-character old; new is a text (possibly empty)
RECURSIVE Replace(_, _, _)
Replace(s, old, new) ==
  IF s = <<>> THEN <<>>
  ELSE (IF Head(s) = old THEN new ELSE <<Head(s)>>) \o Replace(Tail(s), old, new)

\* str.split(sep) for a one-character sep: always at least one part
RECURSIVE Split(_, _)
Split(s, sep) ==
  IF \A n \in 1..Len(s) : s[n] # sep THEN <<s>>
  ELSE LET p == CHOOSE n \in 1..Len(s) :
                   s[n] = sep /\ \A m \in 1..(n - 1) : s[m] # sep
       IN <<SubSeq(s, 1, p - 1)>> \o Split(SubSeq(s, p + 1, Len(s)), sep)

\* "".join(parts)
RECURSIVE Concat(_)
Concat(parts) ==
  IF parts = <<>> THEN <<>> ELSE Head(parts) \o Concat(Tail(parts))

\* ' '.join(parts)
RECURSIVE JoinSpace(_)
JoinSpace(parts) ==
  IF parts = <<>> THEN <<>>
  ELSE IF Len(parts) = 1 THEN Head(parts)
  ELSE Head(parts) \o <<" ">> \o JoinSpace(Tail(parts))

(* ---------------------------------------------------------------------- *)
(* Numerals: the grammar shared by decimal.Decimal(str) and float(str)     *)
(* ---------------------------------------------------------------------- *)
Digitos == <<"0","1","2","3","4","5","6","7","8","9">>

EsDigito(ch) == \E n \in 1..10 : Digitos[n] = ch

ValorDigito(ch) == (CHOOSE n \in 1..10 : Digitos[n] = ch) - 1

SonDigitos(s) == \A n \in 1..Len(s) : EsDigito(s[n])

RECURSIVE ValorDigitos(_)
ValorDigitos(s) ==
  IF s = <<>> THEN 0
  ELSE ValorDigitos(SubSeq(s, 1, Len(s) - 1)) * 10 + ValorDigito(s[Len(s)])

RECURSIVE Pow10(_)
Pow10(n) == IF n <= 0 THEN 1 ELSE 10 * Pow10(n - 1)

TieneSigno(s) == s # <<>> /\ Head(s) \in {"+", "-"}

Signo(s) == IF s # <<>> /\ Head(s) = "-" THEN -1 ELSE 1

SinSigno(s) == IF TieneSigno(s) THEN Tail(s) ELSE s

\* position of the exponent marker, 0 when there is none
PosExp(s) ==
  IF \E n \in 1..Len(s) : s[n] \in {"e", "E"}
  THEN CHOOSE n \in 1..Len(s) :
         s[n] \in {"e", "E"} /\ \A m \in 1..(n - 1) : s[m] \notin {"e", "E"}
  ELSE 0

Mantisa(s) == IF PosExp(s) = 0 THEN s ELSE SubSeq(s, 1, PosExp(s) - 1)

Exponente(s) == IF PosExp(s) = 0 THEN <<>> ELSE SubSeq(s, PosExp(s) + 1, Len(s))

\* [-+]? (digits ('.' digits*)? | '.' digits+) ([eE] [-+]? digits+)?
EsNumeral(s) ==
  LET b  == SinSigno(s)
      ps == Split(Mantisa(b), ".")
      ex == Exponente(b)
  IN /\ Len(ps) <= 2
     /\ \A n \in 1..Len(ps) : SonDigitos(ps[n])
     /\ Len(Concat(ps)) >= 1
     /\ PosExp(b) # 0 => (SinSigno(ex) # <<>> /\ SonDigitos(SinSigno(ex)))

\* the value of a numeral as coefficient and power of ten
NumeralCoef(s) == Signo(s) * ValorDigitos(Concat(Split(Mantisa(SinSigno(s)), ".")))

NumeralExp(s) ==
  LET b  == SinSigno(s)
      ps == Split(Mantisa(b), ".")
      ex == Exponente(b)
  IN (IF PosExp(b) = 0 THEN 0 ELSE Signo(ex) * ValorDigitos(SinSigno(ex)))
     - (IF Len(ps) = 2 THEN Len(ps[2]) ELSE 0)

t_inf == <<"i", "n", "f">>
t_infinity == <<"i", "n", "f", "i", "n", "i", "t", "y">>
t_nan == <<"n", "a", "n">>
t_snan == <<"s", "n", "a", "n">>

\* decimal.Decimal(s): a Decimal, or None where the constructor raises
\* InvalidOperation
Decimal(s) ==
  LET b == Lower(SinSigno(s))
  IN IF EsNumeral(s) THEN [k |-> "fin", c |-> NumeralCoef(s), e |-> NumeralExp(s)]
     ELSE IF b \in {t_inf, t_infinity} THEN [k |-> "inf", s |-> Signo(s)]
     ELSE IF b = t_nan THEN [k |-> "nan"]
     ELSE IF b = t_snan THEN [k |-> "snan"]
     ELSE None

\* variant: the two replacements in the opposite order
normalizar_monto_invertido(monto_str) ==
  Decimal(Replace(Replace(monto_str, ",", <<".">>), ".", <<>>))

normalizar_monto(monto_str) ==
  LET monto_str_normalizado == Replace(Replace(monto_str, ".", <<>>), ",", <<".">>)
      partes == Split(monto_str_normalizado, ".")
      final == IF Len(partes) > 2
               THEN Concat(SubSeq(partes, 1, Len(partes) - 1)) \o <<".">> \o partes[Len(partes)]
               ELSE monto_str_normalizado
  IN Decimal(final)

(* ---------------------------------------------------------------------- *)
(* int(float(s)) as used for the quantity                                  *)
(* ---------------------------------------------------------------------- *)
RECURSIVE NumDigitos(_)
NumDigitos(n) == IF n < 10 THEN 1 ELSE 1 + NumDigitos(n \div 10)

Abs(n) == IF n < 0 THEN -n ELSE n

\* largest power of ten a float can hold: 1e308 is finite, 1e309 is inf
FloatMaxExp10 == 308

\* float(s): "fin" with the numeral's value, "inf", "nan", or ValueError.
\* A numeral of magnitude 10^309 or more overflows to inf.
Float(s) ==
  LET b == Lower(SinSigno(s))
  IN IF EsNumeral(s)
     THEN IF NumeralCoef(s) # 0
             /\ NumDigitos(Abs(NumeralCoef(s))) + NumeralExp(s) > FloatMaxExp10 + 1
          THEN [k |-> "inf", s |-> Signo(s)]
          ELSE [k |-> "fin", c |-> NumeralCoef(s), e |-> NumeralExp(s)]
     ELSE IF b \in {t_inf, t_infinity} THEN [k |-> "inf", s |-> Signo(s)]
     ELSE IF b = t_nan THEN [k |-> "nan"]
     ELSE [k |-> "ValueError"]

\* int(x) of a finite float: truncation toward zero
Truncar(c, e) ==
  IF e >= 0 THEN c * Pow10(e)
  ELSE IF c >= 0 THEN c \div Pow10(-e)
  ELSE -((-c) \div Pow10(-e))

\* int(float(s)): an integer, or the exception raised
IntFloat(s) ==
  LET f == Float(s)
  IN IF f.k = "fin" THEN [k |-> "int", v |-> Truncar(f.c, f.e)]
     ELSE IF f.k = "inf" THEN [k |-> "OverflowError"]
     ELSE [k |-> "ValueError"]

(* ---------------------------------------------------------------------- *)
(* Decimal arithmetic used by sum() and ==                                 *)
(* ---------------------------------------------------------------------- *)
Min(a, b) == IF a <= b THEN a ELSE b

InvalidOperation == [k |-> "InvalidOperation"]

Cero == [k |-> "fin", c |-> 0, e |-> 0]

\* Decimal.__add__ under the default context (InvalidOperation is trapped)
DecAdd(a, b) ==
  IF a.k = "snan" \/ b.k = "snan" THEN InvalidOperation
  ELSE IF a.k = "nan" \/ b.k = "nan" THEN [k |-> "nan"]
  ELSE IF a.k = "inf" /\ b.k = "inf"
       THEN IF a.s = b.s THEN a ELSE InvalidOperation
  ELSE IF a.k = "inf" THEN a
  ELSE IF b.k = "inf" THEN b
  ELSE LET m == Min(a.e, b.e)
       IN [k |-> "fin", c |-> a.c * Pow10(a.e - m) + b.c * Pow10(b.e - m), e |-> m]

\* Decimal.__eq__ raises InvalidOperation for a signaling NaN
DecEqRaises(a, b) == a.k = "snan" \/ b.k = "snan"

\* Decimal.__eq__ where it does not raise
DecEq(a, b) ==
  IF a.k = "nan" \/ b.k = "nan" THEN FALSE
  ELSE IF a.k = "inf" \/ b.k = "inf" THEN a = b
  ELSE LET m == Min(a.e, b.e)
       IN a.c * Pow10(a.e - m) = b.c * Pow10(b.e - m)

(* ---------------------------------------------------------------------- *)
(* Column table                                                            *)
(* ---------------------------------------------------------------------- *)
Cant == "Cant"
Descripcion == "Descripción"
PUnit == "P.Unit"
Importe == "Importe"

\* iteration order of the MAPEO_COLUMNAS dict
OrdenColumnas == <<Cant, Descripcion, PUnit, Importe>>

MAPEO_COLUMNAS ==
  [col \in {Cant, Descripcion, PUnit, Importe} |->
     CASE col = Cant ->
            << <<"c", "a", "n", "t">>,
               <<"c", "a", "n", "t", "i", "d", "a", "d">>,
               <<"q", "t", "y">> >>
       [] col = Descripcion ->
            << <<"d", "e", "s", "c", "r", "i", "p", "c", "i", "ó", "n">>,
               <<"d", "e", "s", "c", "r", "i", "p", "c", "i", "o", "n">>,
               <<"p", "r", "o", "d", "u", "c", "t", "o">>,
               <<"s", "e", "r", "v", "i", "c", "i", "o">>,
               <<"c", "o", "n", "c", "e", "p", "t", "o">> >>
       [] col = PUnit ->
            << <<"p", ".", "u", "n", "i", "t">>,
               <<"u", "n", "i", "t", "a", "r", "i", "o">>,
               <<"p", "r", "e", "c", "i", "o">>,
               <<"p", "/", "u">> >>
       [] col = Importe ->
            << <<"i", "m", "p", "o", "r", "t", "e">>,
               <<"t", "o", "t", "a", "l">>,
               <<"s", "u", "b", "t", "o", "t", "a", "l">>,
               <<"v", "a", "l", "o", "r">> >>]

t_total == <<"t", "o", "t", "a", "l">>

\* the texts of a line's words, in line order
Textos(linea) == [n \in 1..Len(linea) |-> linea[n].text]

\* linea_texto = ' '.join(p['text'] for p in linea).lower()
LineaTexto(linea) == Lower(JoinSpace(Textos(linea)))

\* any(alias in linea_texto for every alias of every column)
TieneAlias(linea) ==
  \E col \in DOMAIN MAPEO_COLUMNAS :
    \E n \in 1..Len(MAPEO_COLUMNAS[col]) :
      Contains(LineaTexto(linea), MAPEO_COLUMNAS[col][n])

\* sum(d['Importe'] for d in detalles), left to right from 0; the
\* InvalidOperation marker once an addition raises
RECURSIVE SumaImportes(_)
SumaImportes(ds) ==
  IF ds = <<>> THEN Cero
  ELSE LET previo == SumaImportes(SubSeq(ds, 1, Len(ds) - 1))
       IN IF previo = InvalidOperation THEN InvalidOperation
          ELSE DecAdd(previo, ds[Len(ds)][Importe])

(* ---------------------------------------------------------------------- *)
(* Column detection (estado = buscando_columnas)                           *)
(* ---------------------------------------------------------------------- *)
\* the alias is in the joined text and some word of the line contains it
AliasAcierta(alias, linea) ==
  /\ Contains(LineaTexto(linea), alias)
  /\ \E n \in 1..Len(linea) : Contains(Lower(linea[n].text), alias)

\* the first word of the line containing the alias (the inner loop breaks)
PalabraDeAlias(alias, linea) ==
  linea[CHOOSE n \in 1..Len(linea) :
          /\ Contains(Lower(linea[n].text), alias)
          /\ \A m \in 1..(n - 1) : ~Contains(Lower(linea[m].text), alias)]

\* the value of columnas[nombre_col] after the alias loop over alias_list,
\* starting from previa (None: no entry); every alias that hits assigns
RECURSIVE AnclaTrasAlias(_, _, _)
AnclaTrasAlias(previa, alias_list, linea) ==
  IF alias_list = <<>> THEN previa
  ELSE AnclaTrasAlias(
         IF AliasAcierta(Head(alias_list), linea)
         THEN [k |-> "pos", left |-> PalabraDeAlias(Head(alias_list), linea).left]
         ELSE previa,
         Tail(alias_list), linea)

\* columnas after the loop over MAPEO_COLUMNAS.items()
ColumnasTras(cols, linea) ==
  LET nueva(col) == AnclaTrasAlias(
                      IF col \in DOMAIN cols THEN [k |-> "pos", left |-> cols[col]] ELSE None,
                      MAPEO_COLUMNAS[col], linea)
  IN [col \in {c \in DOMAIN MAPEO_COLUMNAS : nueva(c) # None} |-> nueva(col).left]

\* the keys of columnas in insertion order after the header line: the loop
\* over MAPEO_COLUMNAS.items() inserts a key when an alias of its list hits
claves_insertadas(linea) ==
  SelectSeq(OrdenColumnas,
            LAMBDA col : \E n \in 1..Len(MAPEO_COLUMNAS[col]) :
                           AliasAcierta(MAPEO_COLUMNAS[col][n], linea))

found_cols(linea) ==
  \E col \in DOMAIN MAPEO_COLUMNAS :
    \E n \in 1..Len(MAPEO_COLUMNAS[col]) : AliasAcierta(MAPEO_COLUMNAS[col][n], linea)

(* ---------------------------------------------------------------------- *)
(* Total detection                                                         *)
(* ---------------------------------------------------------------------- *)
\* montos_en_linea: the parseable amounts of the line's words, in line order
RECURSIVE montos_en_linea(_)
montos_en_linea(linea) ==
  IF linea = <<>> THEN <<>>
  ELSE (IF normalizar_monto(Head(linea).text) # None
        THEN <<normalizar_monto(Head(linea).text)>> ELSE <<>>)
       \o montos_en_linea(Tail(linea))

\* variant: the first amount of the line
UltimoMonto_primero(montos) == montos[1]

\* montos_en_linea[-1]
UltimoMonto(montos) == montos[Len(montos)]

\* variant: a header line that holds 'total' and an amount sets the total
TotalTrasEncabezado_fija(tf, cols, ln) ==
  IF Importe \in DOMAIN cols /\ Contains(LineaTexto(ln), t_total)
     /\ montos_en_linea(ln) # <<>>
  THEN montos_en_linea(ln)[Len(montos_en_linea(ln))]
  ELSE tf

\* lines 131-137: a header line that holds 'total' is a column header, not
\* the final total; the total is left as it is and the line is consumed
TotalTrasEncabezado(tf, cols, ln) == tf

(* ---------------------------------------------------------------------- *)
(* Detail extraction (estado = extrayendo_detalles)                        *)
(* ---------------------------------------------------------------------- *)
\* the keys of columnas in dict order; they are inserted by the loop over
\* MAPEO_COLUMNAS, so the order is that of MAPEO_COLUMNAS
ClavesColumnas(cols) == SelectSeq(OrdenColumnas, LAMBDA c : c \in DOMAIN cols)

\* variant: among the keys of least distance the last one
columna_cercana_ultima(palabra, cols) ==
  LET ks == ClavesColumnas(cols)
      dist(c) == Abs(palabra.left - cols[c])
  IN ks[CHOOSE n \in 1..Len(ks) :
          /\ \A m \in 1..Len(ks) : dist(ks[n]) <= dist(ks[m])
          /\ \A m \in (n + 1)..Len(ks) : dist(ks[m]) > dist(ks[n])]

\* min(distancias, key=distancias.get): the first key of least distance
columna_cercana(palabra, cols) ==
  LET ks == ClavesColumnas(cols)
      dist(c) == Abs(palabra.left - cols[c])
  IN ks[CHOOSE n \in 1..Len(ks) :
          /\ \A m \in 1..Len(ks) : dist(ks[n]) <= dist(ks[m])
          /\ \A m \in 1..(n - 1) : dist(ks[m]) > dist(ks[n])]

\* detalle_linea: for every anchored column the texts assigned to it
detalle_linea(linea, cols) ==
  [col \in DOMAIN cols |->
     Textos(SelectSeq(linea, LAMBDA p : columna_cercana(p, cols) = col))]

IndexError == [k |-> "IndexError"]

Str(t) == [k |-> "str", s |-> t]

\* variant: an anchored column without text reads as None
Primero_sin_texto(linea, cols, col) ==
  IF col \notin DOMAIN cols \/ detalle_linea(linea, cols)[col] = <<>> THEN None
  ELSE Str(detalle_linea(linea, cols)[col][1])

\* detalle_linea.get(col, [None])[0]
Primero(linea, cols, col) ==
  IF col \notin DOMAIN cols THEN None
  ELSE IF detalle_linea(linea, cols)[col] = <<>> THEN IndexError
  ELSE Str(detalle_linea(linea, cols)[col][1])

\* variant: without a Descripción anchor the whole line is the description
Desc_toda_la_linea(linea, cols) ==
  IF Descripcion \in DOMAIN cols THEN JoinSpace(detalle_linea(linea, cols)[Descripcion])
  ELSE JoinSpace(Textos(linea))

\* ' '.join(detalle_linea.get('Descripción', []))
Desc(linea, cols) ==
  IF Descripcion \in DOMAIN cols THEN JoinSpace(detalle_linea(linea, cols)[Descripcion])
  ELSE <<>>

\* variant: the description is not required
TieneImporteYDesc_sin_desc(importe_str, desc) == importe_str # None

\* line 172: if importe_str and desc
TieneImporteYDesc(importe_str, desc) == importe_str # None /\ desc # <<>>

\* variant: a quantity that float() rejects counts as 1
CantDe_por_defecto(cant_str) ==
  IF cant_str = None THEN [k |-> "int", v |-> 1]
  ELSE IF IntFloat(Replace(cant_str.s, ",", <<".">>)).k = "ValueError"
  THEN [k |-> "int", v |-> 1]
  ELSE IntFloat(Replace(cant_str.s, ",", <<".">>))

\* the quantity expression: int(float(cant_str.replace(',', '.'))) if cant_str else 1
CantDe(cant_str) ==
  IF cant_str = None THEN [k |-> "int", v |-> 1]
  ELSE IntFloat(Replace(cant_str.s, ",", <<".">>))

\* the body of the try block for one line: the item appended, the line
\* discarded (nothing appended, or a caught exception), or an exception
\* that the except clause does not catch
Consolidar(linea, cols) ==
  LET desc == Desc(linea, cols)
      cant_str == Primero(linea, cols, Cant)
      punit_str == Primero(linea, cols, PUnit)
      importe_str == Primero(linea, cols, Importe)
      importe == normalizar_monto(importe_str.s)
  IN IF IndexError \in {cant_str, punit_str, importe_str}
     THEN [k |-> "descartada", por |-> "IndexError"]
     ELSE IF ~TieneImporteYDesc(importe_str, desc)
     THEN [k |-> "descartada", por |-> "sin importe o descripcion"]
     ELSE IF importe = None
     THEN [k |-> "descartada", por |-> "importe None"]
     ELSE IF CantDe(cant_str).k = "ValueError"
     THEN [k |-> "descartada", por |-> "ValueError"]
     ELSE IF CantDe(cant_str).k = "OverflowError"
     THEN [k |-> "excepcion", tipo |-> "OverflowError"]
     ELSE [k |-> "item",
           item |-> [col \in {Cant, Descripcion, PUnit, Importe} |->
                       CASE col = Cant -> CantDe(cant_str).v
                         [] col = Descripcion -> desc
                         [] col = PUnit -> IF punit_str # None
                                           THEN normalizar_monto(punit_str.s)
                                           ELSE importe
                         [] col = Importe -> importe]]

(* ---------------------------------------------------------------------- *)
(* Report formatting                                                       *)
(* ---------------------------------------------------------------------- *)
\* f"{d:.2f}": the value quantized to two decimals, ROUND_HALF_EVEN
Formato2f(d) ==
  IF d.k # "fin" THEN d
  ELSE IF d.e >= -2 THEN [k |-> "fin", c |-> d.c * Pow10(d.e + 2), e |-> -2]
  ELSE LET p == Pow10(-2 - d.e)
           q == Abs(d.c) \div p
           r == Abs(d.c) % p
           m == IF 2 * r > p \/ (2 * r = p /\ q % 2 = 1) THEN q + 1 ELSE q
       IN [k |-> "fin", c |-> (IF d.c < 0 THEN -m ELSE m), e |-> -2]

NA == [k |-> "N/A"]

(* ---------------------------------------------------------------------- *)
(* Documents: the lines handed to the loop                                 *)
(* ---------------------------------------------------------------------- *)
w_Cant == <<"C", "a", "n", "t">>

w_Descripcion == <<"D", "e", "s", "c", "r", "i", "p", "c", "i", "ó", "n">>

w_PUnit == <<"P", ".", "U", "n", "i", "t">>

w_Importe == <<"I", "m", "p", "o", "r", "t", "e">>

w_Producto == <<"P", "r", "o", "d", "u", "c", "t", "o">>

w_Precio == <<"P", "r", "e", "c", "i", "o">>

w_Total == <<"T", "o", "t", "a", "l">>

w_Factura == <<"F", "a", "c", "t", "u", "r", "a">>

w_Tornillo == <<"T", "o", "r", "n", "i", "l", "l", "o">>

w_2 == <<"2">>

w_0 == <<"0">>

w_2_9 == <<"2", ",", "9">>

w_x == <<"x">>

w_1e999 == <<"1", "e", "9", "9", "9">>

w_10_50 == <<"1", "0", ",", "5", "0">>

w_21_00 == <<"2", "1", ",", "0", "0">>

w_25_00 == <<"2", "5", ",", "0", "0">>

w_4_5 == <<"4", ",", "5">>

\* a word of a line: its text and its left coordinate
W(text, left) == [text |-> text, left |-> left]

EncCompleto == <<W(w_Cant, 10), W(w_Descripcion, 50), W(w_PUnit, 90), W(w_Importe, 130)>>

EncImporteTotal == <<W(w_Producto, 50), W(w_Importe, 90), W(w_Total, 130)>>

EncCantPrecio == <<W(w_Cant, 10), W(w_Precio, 90)>>

\* the P.Unit word stands left of the Descripción word
EncInvertido == <<W(w_Precio, 10), W(w_Descripcion, 90), W(w_Importe, 130)>>

TotalSimple == <<W(w_Total, 90), W(w_21_00, 130)>>

TotalDos == <<W(w_Total, 50), W(w_21_00, 90), W(w_25_00, 130)>>

TotalSinMonto == <<W(w_Total, 90), W(w_x, 130)>>

DetCompleto == <<W(w_2, 10), W(w_Tornillo, 50), W(w_10_50, 90), W(w_21_00, 130)>>

DetSinCant == <<W(w_Tornillo, 50), W(w_10_50, 90), W(w_21_00, 130)>>

DetSinPUnit == <<W(w_2, 10), W(w_Tornillo, 50), W(w_21_00, 130)>>

DetCantMala == <<W(w_x, 10), W(w_Tornillo, 50), W(w_10_50, 90), W(w_21_00, 130)>>

DetCantDesborda == <<W(w_1e999, 10), W(w_Tornillo, 50), W(w_10_50, 90), W(w_21_00, 130)>>

DetPUnitMalo == <<W(w_2_9, 10), W(w_Tornillo, 50), W(w_x, 90), W(w_21_00, 130)>>

DetImporteMalo == <<W(w_2, 10), W(w_Tornillo, 50), W(w_10_50, 90), W(w_x, 130)>>

DetSinDesc == <<W(w_2, 10), W(w_10_50, 90), W(w_21_00, 130)>>

DetSinImporte == <<W(w_2, 10), W(w_Tornillo, 50), W(w_10_50, 90)>>

DetCero == <<W(w_0, 10), W(w_Tornillo, 50), W(w_4_5, 90), W(w_4_5, 130)>>

Ruido == <<W(w_Factura, 10)>>

Lineas ==
  {EncCompleto, EncImporteTotal, EncCantPrecio, EncInvertido,
   TotalSimple, TotalDos, TotalSinMonto,
   DetCompleto, DetSinCant, DetSinPUnit, DetCantMala, DetCantDesborda, DetPUnitMalo,
   DetImporteMalo, DetSinDesc, DetSinImporte, DetCero, Ruido}

Documentos == UNION {[1..n -> Lineas] : n \in 0..MaxLineas}

(* ---------------------------------------------------------------------- *)
(* Tables of the text operators over the lines above.  They are constants, *)
(* so each line's text is scanned once and not once per step.              *)
(* ---------------------------------------------------------------------- *)
found_cols_de == [ln \in Lineas |-> found_cols(ln)]

TieneAliasDe == [ln \in Lineas |-> TieneAlias(ln)]

TieneTotalDe == [ln \in Lineas |-> Contains(LineaTexto(ln), t_total)]

montos_en_linea_de == [ln \in Lineas |-> montos_en_linea(ln)]

\* the anchor maps a header line of the vocabulary can leave
ColumnasPosibles == {ColumnasTras(<<>>, ln) : ln \in Lineas}

ColumnasTrasDe == [ln \in Lineas |-> ColumnasTras(<<>>, ln)]

ConsolidarDe == [ln \in Lineas, cols \in ColumnasPosibles \ {<<>>} |-> Consolidar(ln, cols)]

(* ---------------------------------------------------------------------- *)
(* State                                                                   *)
(* ---------------------------------------------------------------------- *)
VARIABLES
  imagen,          \* what preprocesar_imagen returns: "binaria" or "None"
  lineas,          \* the lines of the document, top to bottom
  i,               \* number of lines the loop has consumed
  estado,          \* classifier state
  columnas,        \* column name -> anchor
  detalles,        \* the items appended so far
  total_factura,   \* a Decimal or None
  total_calculado, \* a Decimal, None before the return
  excepcion,       \* the exception that left reconocer_factura, or None
  resultado,       \* the report entry of the document, or None
  pc,              \* "inicio", "bucle", "retornado", "reportado", "excepcion"
  monto_str,       \* the argument of a call of normalizar_monto
  monto,           \* what that call returned
  data,            \* the words pytesseract.image_to_data returned
  palabras         \* the words kept by the confidence filter

vars == <<imagen, lineas, i, estado, columnas, detalles, total_factura,
          total_calculado, excepcion, resultado, pc, monto_str, monto,
          data, palabras>>

\* the variables of the word stage and of a single normalizar_monto call;
\* the line loop does not touch them
fuera_del_bucle == <<monto_str, monto, data, palabras>>

Init ==
  /\ imagen \in {"binaria", "None"}
  /\ lineas \in Documentos
  /\ imagen = "None" => lineas = <<>>
  /\ i = 0
  /\ estado = "buscando_columnas"
  /\ columnas = <<>>
  /\ detalles = <<>>
  /\ total_factura = None
  /\ total_calculado = None
  /\ excepcion = None
  /\ resultado = None
  /\ pc = "inicio"
  /\ monto_str = <<>>
  /\ monto = None
  /\ data = <<>>
  /\ palabras = <<>>

\* the line of the current iteration
linea == lineas[i + 1]

EnBucle == pc = "bucle" /\ i < Len(lineas)

\* variant: the state changes whether or not a column was found
EsEncabezado_siempre(st, ln) == st = "buscando_columnas"

\* line 119 and line 130: the line is taken as the header
EsEncabezado(st, ln) == st = "buscando_columnas" /\ found_cols_de[ln]

\* lines 140 and 143: the line sets the total
EsTotal(st, ln) ==
  /\ TieneTotalDe[ln]
  /\ st # "buscando_columnas"
  /\ montos_en_linea_de[ln] # <<>>

\* variant: details are extracted in every state after the header
EnExtraccion_tras_total(st, cols) == st # "buscando_columnas" /\ DOMAIN cols # {}

\* line 149: the detail section is entered
EnExtraccion(st, cols) == st = "extrayendo_detalles" /\ DOMAIN cols # {}

(* ---------------------------------------------------------------------- *)
(* procesar_lote_facturas: one document of the batch                       *)
(* ---------------------------------------------------------------------- *)
\* preprocesar_imagen returned an image: reconocer_factura is called
Preprocesar ==
  /\ pc = "inicio"
  /\ imagen # "None"
  /\ pc' = "bucle"
  /\ UNCHANGED fuera_del_bucle
  /\ UNCHANGED <<imagen, lineas, i, estado, columnas, detalles, total_factura,
                 total_calculado, excepcion, resultado>>

\* preprocesar_imagen returned None: the entry of an unreadable image
ImagenIlegible ==
  /\ pc = "inicio"
  /\ imagen = "None"
  /\ resultado' = [TotalCalculado |-> NA, TotalFactura |-> NA,
                   Coherente |-> "No", Error |-> "No se pudo leer la imagen"]
  /\ pc' = "reportado"
  /\ UNCHANGED fuera_del_bucle
  /\ UNCHANGED <<imagen, lineas, i, estado, columnas, detalles, total_factura,
                 total_calculado, excepcion>>

(* ---------------------------------------------------------------------- *)
(* reconocer_factura: one iteration of `for linea in lineas`               *)
(* ---------------------------------------------------------------------- *)
\* variant: columns are still sought after the header line
EstadoTrasColumnas_buscando == "buscando_columnas"

\* line 136: the state after the header line
EstadoTrasColumnas == "extrayendo_detalles"

\* the line matches a column alias while columns are sought: the anchors
\* are written and the line is consumed
DetectarColumnas ==
  /\ EnBucle
  /\ EsEncabezado(estado, linea)
  /\ columnas' = (IF columnas = <<>> THEN ColumnasTrasDe[linea]
                  ELSE ColumnasTras(columnas, linea))
  /\ total_factura' = TotalTrasEncabezado(total_factura, columnas', linea)
  /\ estado' = EstadoTrasColumnas
  /\ i' = i + 1
  /\ UNCHANGED fuera_del_bucle
  /\ UNCHANGED <<imagen, lineas, detalles, total_calculado, excepcion,
                 resultado, pc>>

\* variant: details are still extracted after the total line
EstadoTrasTotal_extrayendo == "extrayendo_detalles"

\* line 145: the state after a total line
EstadoTrasTotal == "buscando_total"

\* the line holds 'total' and an amount: the total is set and the line is
\* consumed
DetectarTotal ==
  /\ EnBucle
  /\ ~EsEncabezado(estado, linea)
  /\ EsTotal(estado, linea)
  /\ total_factura' = UltimoMonto(montos_en_linea_de[linea])
  /\ estado' = EstadoTrasTotal
  /\ i' = i + 1
  /\ UNCHANGED fuera_del_bucle
  /\ UNCHANGED <<imagen, lineas, columnas, detalles, total_calculado,
                 excepcion, resultado, pc>>

\* the detail section is reached by the line
EnDetalle ==
  /\ EnBucle
  /\ ~EsEncabezado(estado, linea)
  /\ ~EsTotal(estado, linea)
  /\ EnExtraccion(estado, columnas)

\* the line looks like a residual header: skipped
IgnorarEncabezadoResidual ==
  /\ EnDetalle
  /\ TieneAliasDe[linea]
  /\ i' = i + 1
  /\ UNCHANGED fuera_del_bucle
  /\ UNCHANGED <<imagen, lineas, estado, columnas, detalles, total_factura,
                 total_calculado, excepcion, resultado, pc>>

\* the line is consolidated into an item
AgregarDetalle ==
  /\ EnDetalle
  /\ ~TieneAliasDe[linea]
  /\ ConsolidarDe[linea, columnas].k = "item"
  /\ detalles' = Append(detalles, ConsolidarDe[linea, columnas].item)
  /\ i' = i + 1
  /\ UNCHANGED fuera_del_bucle
  /\ UNCHANGED <<imagen, lineas, estado, columnas, total_factura,
                 total_calculado, excepcion, resultado, pc>>

\* nothing is appended: the guard of line 172 or 174 fails, or the except
\* clause catches the exception
DescartarDetalle ==
  /\ EnDetalle
  /\ ~TieneAliasDe[linea]
  /\ ConsolidarDe[linea, columnas].k = "descartada"
  /\ i' = i + 1
  /\ UNCHANGED fuera_del_bucle
  /\ UNCHANGED <<imagen, lineas, estado, columnas, detalles, total_factura,
                 total_calculado, excepcion, resultado, pc>>

\* an exception the except clause does not name leaves the function
ExcepcionDetalle ==
  /\ EnDetalle
  /\ ~TieneAliasDe[linea]
  /\ ConsolidarDe[linea, columnas].k = "excepcion"
  /\ excepcion' = [k |-> ConsolidarDe[linea, columnas].tipo]
  /\ pc' = "excepcion"
  /\ UNCHANGED fuera_del_bucle
  /\ UNCHANGED <<imagen, lineas, i, estado, columnas, detalles, total_factura,
                 total_calculado, resultado>>

\* none of the three sections applies to the line
SaltarLinea ==
  /\ EnBucle
  /\ ~EsEncabezado(estado, linea)
  /\ ~EsTotal(estado, linea)
  /\ ~EnExtraccion(estado, columnas)
  /\ i' = i + 1
  /\ UNCHANGED fuera_del_bucle
  /\ UNCHANGED <<imagen, lineas, estado, columnas, detalles, total_factura,
                 total_calculado, excepcion, resultado, pc>>

\* total_calculado of line 189
TotalCalculado(ds) == IF ds # <<>> THEN SumaImportes(ds) ELSE Cero

\* after the loop: lines 185-191
Retornar ==
  /\ pc = "bucle"
  /\ i = Len(lineas)
  /\ estado' = IF DOMAIN columnas = {} THEN "extrayendo_detalles" ELSE estado
  /\ IF TotalCalculado(detalles) = InvalidOperation
     THEN /\ excepcion' = InvalidOperation
          /\ pc' = "excepcion"
          /\ UNCHANGED total_calculado
     ELSE /\ total_calculado' = TotalCalculado(detalles)
          /\ pc' = "retornado"
          /\ UNCHANGED excepcion
  /\ UNCHANGED fuera_del_bucle
  /\ UNCHANGED <<imagen, lineas, i, columnas, detalles, total_factura, resultado>>

(* ---------------------------------------------------------------------- *)
(* procesar_lote_facturas: the entry appended to resultados                *)
(* ---------------------------------------------------------------------- *)
\* line 228
SinDatos(ds, tf) == ds = <<>> \/ tf = None

\* variant: totals closer than 5 units count as equal
es_coherente_tolerante(tc, tf) ==
  /\ tc.k = "fin" /\ tf.k = "fin"
  /\ Abs(tc.c * Pow10(tc.e - Min(tc.e, tf.e)) - tf.c * Pow10(tf.e - Min(tc.e, tf.e)))
       < 5 * Pow10(-Min(tc.e, tf.e))

\* line 237
es_coherente(tc, tf) == DecEq(tc, tf)

Reportar ==
  /\ pc = "retornado"
  /\ IF SinDatos(detalles, total_factura)
     THEN /\ resultado' = [TotalCalculado |-> NA, TotalFactura |-> NA,
                           Coherente |-> "No",
                           Error |-> "No se extrajeron detalles o total"]
          /\ pc' = "reportado"
          /\ UNCHANGED excepcion
     ELSE IF DecEqRaises(total_calculado, total_factura)
     THEN /\ excepcion' = InvalidOperation
          /\ pc' = "excepcion"
          /\ UNCHANGED resultado
     ELSE /\ resultado' = [TotalCalculado |-> Formato2f(total_calculado),
                           TotalFactura |-> Formato2f(total_factura),
                           Coherente |-> IF es_coherente(total_calculado, total_factura)
                                         THEN "Sí" ELSE "No",
                           Error |-> ""]
          /\ pc' = "reportado"
          /\ UNCHANGED excepcion
  /\ UNCHANGED fuera_del_bucle
  /\ UNCHANGED <<imagen, lineas, i, estado, columnas, detalles, total_factura,
                 total_calculado>>

Next ==
  \/ Preprocesar
  \/ ImagenIlegible
  \/ DetectarColumnas
  \/ DetectarTotal
  \/ IgnorarEncabezadoResidual
  \/ AgregarDetalle
  \/ DescartarDetalle
  \/ ExcepcionDetalle
  \/ SaltarLinea
  \/ Retornar
  \/ Reportar

Spec == Init /\ [][Next]_vars

(* ---------------------------------------------------------------------- *)
(* One call of normalizar_monto on a token of digits, '.' and ','          *)
(* ---------------------------------------------------------------------- *)
MaxToken == 4

AlfabetoMonto == {"0", "7", ".", ","}

t_1_234_56 == <<"1", ".", "2", "3", "4", ",", "5", "6">>
t_78_90 == <<"7", "8", ",", "9", "0">>
t_1_234_567_89 == <<"1", ".", "2", "3", "4", ".", "5", "6", "7", ",", "8", "9">>
t_78p90 == <<"7", "8", ".", "9", "0">>

Tokens ==
  UNION {[1..n -> AlfabetoMonto] : n \in 0..MaxToken}
    \cup {t_1_234_56, t_78_90, t_1_234_567_89, t_78p90}

\* the line loop is not running
SinBucle ==
  /\ imagen = "binaria"
  /\ lineas = <<>>
  /\ i = 0
  /\ estado = "buscando_columnas"
  /\ columnas = <<>>
  /\ detalles = <<>>
  /\ total_factura = None
  /\ total_calculado = None
  /\ excepcion = None
  /\ resultado = None

bucle == <<imagen, lineas, i, estado, columnas, detalles, total_factura,
           total_calculado, excepcion, resultado>>

InitMonto ==
  /\ SinBucle
  /\ monto_str \in Tokens
  /\ monto = None
  /\ data = <<>>
  /\ palabras = <<>>
  /\ pc = "normalizar"

NormalizarMonto ==
  /\ pc = "normalizar"
  /\ monto' = normalizar_monto(monto_str)
  /\ pc' = "normalizado"
  /\ UNCHANGED <<monto_str, data, palabras>>
  /\ UNCHANGED bucle

NextMonto == NormalizarMonto

SpecMonto == InitMonto /\ [][NextMonto]_vars

(* ---------------------------------------------------------------------- *)
(* From the OCR words to the lines: filter, sort, grouping                 *)
(* ---------------------------------------------------------------------- *)
MaxPalabras == 3

Blancos == {" ", "\t"}

RECURSIVE LStrip(_)
LStrip(s) == IF s # <<>> /\ Head(s) \in Blancos THEN LStrip(Tail(s)) ELSE s

RECURSIVE RStrip(_)
RStrip(s) ==
  IF s # <<>> /\ s[Len(s)] \in Blancos THEN RStrip(SubSeq(s, 1, Len(s) - 1)) ELSE s

\* str.strip()
Strip(s) == RStrip(LStrip(s))

\* one entry of the dictionary of image_to_data; width and height are copied
\* into the word and never read again
R(text, conf, left, top) == [text |-> text, conf |-> conf, left |-> left, top |-> top]

\* variant: the threshold itself passes
Conservada_desde_60(r) == Strip(r.text) # <<>> /\ r.conf >= 60

\* if text and int(data['conf'][i]) > 60
Conservada(r) == Strip(r.text) # <<>> /\ r.conf > 60

Palabra(r) == [text |-> Strip(r.text), left |-> r.left, top |-> r.top]

RECURSIVE FiltrarPalabras(_)
FiltrarPalabras(d) ==
  IF d = <<>> THEN <<>>
  ELSE (IF Conservada(Head(d)) THEN <<Palabra(Head(d))>> ELSE <<>>)
         \o FiltrarPalabras(Tail(d))

\* the sort keys: (top, left) for the words, left inside a line
Clave(w, modo) == IF modo = "top_left" THEN <<w.top, w.left>> ELSE <<w.left>>

MenorClave(a, b) == a[1] < b[1] \/ (a[1] = b[1] /\ Len(a) > 1 /\ a[2] < b[2])

\* list.sort and sorted are stable: a word goes behind the words of equal key
RECURSIVE InsertarOrdenado(_, _, _)
InsertarOrdenado(s, w, modo) ==
  IF s = <<>> THEN <<w>>
  ELSE IF MenorClave(Clave(w, modo), Clave(Head(s), modo)) THEN <<w>> \o s
  ELSE <<Head(s)>> \o InsertarOrdenado(Tail(s), w, modo)

RECURSIVE Sorted(_, _)
Sorted(s, modo) ==
  IF s = <<>> THEN <<>>
  ELSE InsertarOrdenado(Sorted(SubSeq(s, 1, Len(s) - 1), modo), s[Len(s)], modo)

\* variant: the threshold itself still joins
MismaLinea_hasta_20(palabra_actual, palabra_anterior) ==
  Abs(palabra_actual.top - palabra_anterior.top) <= 20

\* abs(palabra_actual['top'] - palabra_anterior['top']) < 20
MismaLinea(palabra_actual, palabra_anterior) ==
  Abs(palabra_actual.top - palabra_anterior.top) < 20

\* the loop over palabras[1:], with the open line and the closed lines
RECURSIVE AgruparDesde(_, _, _, _)
AgruparDesde(ps, n, linea_actual, cerradas) ==
  IF n > Len(ps) THEN Append(cerradas, Sorted(linea_actual, "left"))
  ELSE IF MismaLinea(ps[n], linea_actual[Len(linea_actual)])
  THEN AgruparDesde(ps, n + 1, Append(linea_actual, ps[n]), cerradas)
  ELSE AgruparDesde(ps, n + 1, <<ps[n]>>, Append(cerradas, Sorted(linea_actual, "left")))

AgruparLineas(ps) ==
  IF ps = <<>> THEN <<>> ELSE AgruparDesde(ps, 2, <<ps[1]>>, <<>>)

r_Cant == R(<<"C", "a", "n", "t">>, 95, 10, 100)
r_Importe == R(<<"I", "m", "p", "o", "r", "t", "e">>, 95, 50, 115)
r_2_bajo == R(<<"2">>, 61, 10, 130)
r_x_60 == R(<<"x">>, 60, 50, 100)
r_Total == R(<<" ", "T", "o", "t", "a", "l", " ">>, 95, 50, 120)
r_blanco == R(<<" ">>, 95, 10, 100)
r_vacio == R(<<>>, -1, 10, 120)
r_x_55 == R(<<"x">>, 55, 10, 115)
r_7_izq == R(<<"7">>, 95, 10, 105)
r_7_der == R(<<"7">>, 95, 50, 100)
r_2_alto == R(<<"2">>, 95, 10, 100)

PalabrasOCR ==
  {r_Cant, r_Importe, r_2_bajo, r_x_60, r_Total,
   r_blanco, r_vacio, r_x_55, r_7_izq, r_7_der,
   r_2_alto}

DatosOCR == UNION {[1..n -> PalabrasOCR] : n \in 0..MaxPalabras}

InitOCR ==
  /\ SinBucle
  /\ monto_str = <<>>
  /\ monto = None
  /\ data \in DatosOCR
  /\ palabras = <<>>
  /\ pc = "ocr"

sin_lineas == <<imagen, i, estado, columnas, detalles, total_factura,
                total_calculado, excepcion, resultado, monto_str, monto>>

FiltrarOCR ==
  /\ pc = "ocr"
  /\ palabras' = FiltrarPalabras(data)
  /\ pc' = "filtrado"
  /\ UNCHANGED <<data, lineas>>
  /\ UNCHANGED sin_lineas

OrdenarOCR ==
  /\ pc = "filtrado"
  /\ palabras' = Sorted(palabras, "top_left")
  /\ pc' = "ordenado"
  /\ UNCHANGED <<data, lineas>>
  /\ UNCHANGED sin_lineas

AgruparOCR ==
  /\ pc = "ordenado"
  /\ lineas' = AgruparLineas(palabras)
  /\ pc' = "agrupado"
  /\ UNCHANGED <<data, palabras>>
  /\ UNCHANGED sin_lineas

NextOCR ==
  \/ FiltrarOCR
  \/ OrdenarOCR
  \/ AgruparOCR

SpecOCR == InitOCR /\ [][NextOCR]_vars

(* ---------------------------------------------------------------------- *)
(* Properties                                                              *)
(* ---------------------------------------------------------------------- *)
\* the texts assigned to every anchored column, per line and anchor map
TextosDe == [ln \in Lineas, cols \in ColumnasPosibles \ {<<>>} |-> detalle_linea(ln, cols)]

\* some text was assigned to the column
ConTexto(ln, cols, col) == col \in DOMAIN cols /\ TextosDe[ln, cols][col] # <<>>

\* the column is anchored and no text was assigned to it
SinTexto(ln, cols, col) == col \in DOMAIN cols /\ TextosDe[ln, cols][col] = <<>>

\* non-empty description and a first Importe text that normalizar_monto reads
BienFormadaDe ==
  [ln \in Lineas, cols \in ColumnasPosibles \ {<<>>} |->
     /\ ConTexto(ln, cols, Descripcion)
     /\ ConTexto(ln, cols, Importe)
     /\ normalizar_monto(TextosDe[ln, cols][Importe][1]) # None]

\* int(float(.)) of the first Cant text, comma replaced by point
CantidadDe ==
  [ln \in Lineas, cols \in ColumnasPosibles \ {<<>>} |->
     IF ConTexto(ln, cols, Cant)
     THEN IntFloat(Replace(TextosDe[ln, cols][Cant][1], ",", <<".">>))
     ELSE None]

\* normalizar_monto of the first P.Unit text
PrecioUnitarioDe ==
  [ln \in Lineas, cols \in ColumnasPosibles \ {<<>>} |->
     IF ConTexto(ln, cols, PUnit)
     THEN normalizar_monto(TextosDe[ln, cols][PUnit][1])
     ELSE None]

\* the current line reaches the word assignment of the detail section
Reenviada ==
  /\ EnBucle
  /\ estado = "extrayendo_detalles"
  /\ DOMAIN columnas # {}
  /\ ~TieneAliasDe[linea]

\* the step appends an item
Agrega == Len(detalles') = Len(detalles) + 1

\* the item the step appends
Agregado == detalles'[Len(detalles')]

\* the step discards the line and goes on to the next one
Descarta == detalles' = detalles /\ pc' = "bucle" /\ i' = i + 1

\* C1 as stated: in TotalFound a line without alias and without 'total'
\* that has a description and a parseable amount still yields a LineItem.
C1_Original ==
  [][(EnBucle /\ estado = "buscando_total" /\ ~TieneAliasDe[linea]
      /\ BienFormadaDe[linea, columnas]) => Agrega]_vars

\* C1 amended: in TotalFound no line is forwarded to the detail section;
\* whatever line is processed after a total line with a parseable amount,
\* the item list stays as it is.
C1_TotalFoundNoDetails ==
  [][(EnBucle /\ estado = "buscando_total") => detalles' = detalles]_vars

\* a well-formed detail line was consumed right after a total line and
\* left no item
C1_Witness ==
  /\ pc = "bucle" /\ estado = "buscando_total" /\ i >= 3
  /\ TieneTotalDe[lineas[i - 1]] /\ montos_en_linea_de[lineas[i - 1]] # <<>>
  /\ ~TieneAliasDe[lineas[i]]
  /\ BienFormadaDe[lineas[i], columnas]
  /\ detalles = <<>>

\* some line consumed so far matched an alias
HayEncabezado == \E n \in 1..i : found_cols_de[lineas[n]]

\* the header line of the lines consumed so far: the first with an alias
IndiceEncabezado ==
  CHOOSE n \in 1..i : found_cols_de[lineas[n]]
                      /\ \A m \in 1..(n - 1) : ~found_cols_de[lineas[m]]

\* first match: the first alias of the column, in table order, that the
\* line matches, and the first word holding it
PrimeraCoincidencia(col, ln) ==
  LET al == MAPEO_COLUMNAS[col]
      n == CHOOSE n \in 1..Len(al) :
             AliasAcierta(al[n], ln) /\ \A m \in 1..(n - 1) : ~AliasAcierta(al[m], ln)
  IN PalabraDeAlias(al[n], ln).left

PrimeraCoincidenciaDe ==
  [ln \in Lineas |->
     [col \in {c \in DOMAIN MAPEO_COLUMNAS :
                 \E n \in 1..Len(MAPEO_COLUMNAS[c]) : AliasAcierta(MAPEO_COLUMNAS[c][n], ln)} |->
        PrimeraCoincidencia(col, ln)]]

\* C2 as stated: every anchor is the left coordinate of the first match of
\* its column in the header line; a later alias match does not overwrite it.
C2_FirstMatchWins ==
  (pc = "bucle" /\ DOMAIN columnas # {}) =>
    \A col \in DOMAIN columnas :
      columnas[col] = PrimeraCoincidenciaDe[lineas[IndiceEncabezado]][col]

\* C3 as stated (for lines whose other columns raise nothing): a detail
\* line with description and parseable amount yields a LineItem whose
\* quantity is the truncated first Cant text, or 1 when no text was
\* assigned to Cant or the text cannot be parsed.
C3_Original ==
  [][(Reenviada /\ BienFormadaDe[linea, columnas] /\ ~SinTexto(linea, columnas, PUnit)
      /\ CantidadDe[linea, columnas].k # "OverflowError") =>
       (Agrega /\ Agregado[Cant] = IF CantidadDe[linea, columnas].k = "int"
                                   THEN CantidadDe[linea, columnas].v ELSE 1)]_vars

\* C3 amended: when such a line yields a LineItem, its quantity is the
\* truncated first Cant text if a Cant anchor exists and 1 if none exists;
\* with a Cant anchor and no text assigned to Cant, or a Cant text that
\* float() rejects, the line is discarded and no LineItem is emitted.
C3_Quantity ==
  [][(Reenviada /\ BienFormadaDe[linea, columnas]) =>
       /\ Agrega =>
            IF Cant \in DOMAIN columnas
            THEN /\ CantidadDe[linea, columnas].k = "int"
                 /\ Agregado[Cant] = CantidadDe[linea, columnas].v
            ELSE Agregado[Cant] = 1
       /\ (SinTexto(linea, columnas, Cant) \/ CantidadDe[linea, columnas].k = "ValueError")
            => Descarta]_vars

\* a line with description and amount, no text under the Cant anchor, was
\* consumed and left no item
C3_Witness ==
  /\ pc = "bucle" /\ estado = "extrayendo_detalles" /\ i >= 2
  /\ ~TieneAliasDe[lineas[i]]
  /\ BienFormadaDe[lineas[i], columnas]
  /\ SinTexto(lineas[i], columnas, Cant)
  /\ ~SinTexto(lineas[i], columnas, PUnit)
  /\ detalles = <<>>

\* the rightmost amount of a line that normalizar_monto reads, None if none
MontoFinalDe ==
  [ln \in Lineas |->
     IF \E n \in 1..Len(ln) : normalizar_monto(ln[n].text) # None
     THEN normalizar_monto(
            ln[CHOOSE n \in 1..Len(ln) :
                 /\ normalizar_monto(ln[n].text) # None
                 /\ \A m \in (n + 1)..Len(ln) : normalizar_monto(ln[m].text) = None].text)
     ELSE None]

\* the lines consumed so far, after the header, that hold 'total' and an amount
LineasDeTotal ==
  {n \in 1..i : /\ HayEncabezado
                /\ n > IndiceEncabezado
                /\ TieneTotalDe[lineas[n]]
                /\ MontoFinalDe[lineas[n]] # None}

Maximo(S) == CHOOSE n \in S : \A m \in S : m <= n

\* C4: the total is the rightmost parseable amount of the last line, among
\* those consumed outside SeekingColumns, that holds 'total' and a parseable
\* amount; it is unset when there is no such line.
C4_LastTotalWins ==
  total_factura = IF LineasDeTotal = {} THEN None
                  ELSE MontoFinalDe[lineas[Maximo(LineasDeTotal)]]

\* two total lines with different last amounts were consumed and the
\* function returned
C4_Witness ==
  /\ pc = "retornado"
  /\ \E n, m \in LineasDeTotal :
       n < m /\ MontoFinalDe[lineas[n]] # MontoFinalDe[lineas[m]]
             /\ total_factura = MontoFinalDe[lineas[m]]

\* C5: one line does at most one of: write anchors, set the total, append
\* an item; the header line writes anchors and neither sets the total nor
\* appends an item, even when it holds 'total' and a parseable amount.
C5_OneConsumer ==
  [][EnBucle =>
       /\ ~(columnas' # columnas /\ total_factura' # total_factura)
       /\ ~(columnas' # columnas /\ detalles' # detalles)
       /\ ~(total_factura' # total_factura /\ detalles' # detalles)
       /\ EsEncabezado(estado, linea) =>
            /\ columnas' # columnas
            /\ total_factura' = total_factura
            /\ detalles' = detalles]_vars

\* a first line holding 'total' and a parseable amount was consumed as the
\* header: Importe is anchored and the total is still unset
C5_Witness ==
  /\ pc = "bucle" /\ i = 1
  /\ TieneTotalDe[lineas[1]] /\ MontoFinalDe[lineas[1]] # None
  /\ estado = "extrayendo_detalles"
  /\ Importe \in DOMAIN columnas
  /\ total_factura = None

\* the least exponent among the amounts of the items, at most 0
RECURSIVE MenorExp(_)
MenorExp(ds) == IF ds = <<>> THEN 0 ELSE Min(Head(ds)[Importe].e, MenorExp(Tail(ds)))

\* a finite Decimal counted in units of 10^m
EnUnidades(d, m) == d.c * Pow10(d.e - m)

\* the sum of the amounts in units of 10^m, taken from the last item back
RECURSIVE SumaEnUnidades(_, _)
SumaEnUnidades(ds, m) ==
  IF ds = <<>> THEN 0 ELSE EnUnidades(Head(ds)[Importe], m) + SumaEnUnidades(Tail(ds), m)

TodosFinitos(ds) == \A n \in 1..Len(ds) : ds[n][Importe].k = "fin"

\* the items in another order
Reordenado(ds, perm) == [n \in 1..Len(ds) |-> ds[perm[n]]]

\* C6: the computed sum returned is the exact sum of the items' amounts,
\* 0 without items, the same for every order of the items; the verdict is
\* "Sí" exactly when that sum equals the total, with no tolerance: header,
\* one item of 21,00 and 'Total 21,00' is coherent, with a total of 25,00
\* it is not.
C6_SumAndVerdict ==
  (imagen = "binaria" /\ pc \in {"retornado", "reportado"} /\ TodosFinitos(detalles)) =>
    /\ total_calculado.k = "fin"
    /\ LET m == Min(MenorExp(detalles), total_calculado.e)
       IN EnUnidades(total_calculado, m) = SumaEnUnidades(detalles, m)
    /\ detalles = <<>> => total_calculado = Cero
    /\ \A perm \in Permutations(1..Len(detalles)) :
         DecEq(TotalCalculado(Reordenado(detalles, perm)), total_calculado)
    /\ (pc = "reportado" /\ resultado.Error = "" /\ total_factura.k = "fin") =>
         LET m == Min(MenorExp(detalles), total_factura.e)
         IN (resultado.Coherente = "Sí")
              <=> (EnUnidades(total_factura, m) = SumaEnUnidades(detalles, m))
    /\ (pc = "reportado" /\ lineas = <<EncCompleto, DetCompleto, TotalSimple>>) =>
         (resultado.Error = "" /\ resultado.Coherente = "Sí")
    /\ (pc = "reportado" /\ lineas = <<EncCompleto, DetCompleto, TotalDos>>) =>
         (resultado.Error = "" /\ resultado.Coherente = "No")

\* a document with an item and a total was reported coherent
C6_Witness ==
  /\ pc = "reportado"
  /\ Len(detalles) >= 1
  /\ total_factura # None
  /\ resultado.Error = ""
  /\ resultado.Coherente = "Sí"

\* no line of the document matches a column alias
SinEncabezado == \A n \in 1..Len(lineas) : ~found_cols_de[lineas[n]]

\* C7: when no line matches a column alias, the classifier stays in
\* SeekingColumns during the loop, no line reaches the detail section, the
\* result has no items and the document is reported as unresolved.
C7_NoHeaderNoItems ==
  (imagen = "binaria" /\ SinEncabezado) =>
    /\ pc = "bucle" => estado = "buscando_columnas"
    /\ ~(EnBucle /\ EnExtraccion(estado, columnas))
    /\ detalles = <<>>
    /\ pc = "reportado" => resultado.Error # ""

\* a document without header that holds a complete detail line was
\* reported as unresolved
C7_Witness ==
  /\ pc = "reportado" /\ imagen = "binaria"
  /\ SinEncabezado
  /\ \E n \in 1..Len(lineas) : lineas[n] = DetCompleto
  /\ detalles = <<>>
  /\ resultado.Error # ""

\* the quantity of the line raises nothing: no Cant anchor, or a Cant text
\* that int(float(.)) reads
CantidadLegible(ln, cols) ==
  Cant \notin DOMAIN cols \/ CantidadDe[ln, cols].k = "int"

\* C8 as stated (for lines whose quantity is readable): a detail line with
\* description and parseable amount yields a LineItem whose unit price is
\* normalizar_monto of the first P.Unit text, or the line's amount when no
\* text was assigned to P.Unit, with or without a P.Unit anchor.
C8_Original ==
  [][(Reenviada /\ BienFormadaDe[linea, columnas] /\ CantidadLegible(linea, columnas)) =>
       (Agrega /\ Agregado[PUnit] = IF ConTexto(linea, columnas, PUnit)
                                    THEN PrecioUnitarioDe[linea, columnas]
                                    ELSE Agregado[Importe])]_vars

\* C8 amended: when such a line yields a LineItem, its unit price is
\* normalizar_monto of the first P.Unit text if a P.Unit anchor exists and
\* the line's amount if none exists; with a P.Unit anchor and no text
\* assigned to P.Unit the line is discarded and no LineItem is emitted.
C8_UnitPrice ==
  [][(Reenviada /\ BienFormadaDe[linea, columnas]) =>
       /\ Agrega =>
            IF PUnit \in DOMAIN columnas
            THEN /\ ConTexto(linea, columnas, PUnit)
                 /\ Agregado[PUnit] = PrecioUnitarioDe[linea, columnas]
            ELSE Agregado[PUnit] = Agregado[Importe]
       /\ SinTexto(linea, columnas, PUnit) => Descarta]_vars

\* a line with quantity, description and amount, no text under the P.Unit
\* anchor, was consumed and left no item
C8_Witness ==
  /\ pc = "bucle" /\ estado = "extrayendo_detalles" /\ i >= 2
  /\ ~TieneAliasDe[lineas[i]]
  /\ BienFormadaDe[lineas[i], columnas]
  /\ SinTexto(lineas[i], columnas, PUnit)
  /\ Cant \in DOMAIN columnas /\ CantidadDe[lineas[i], columnas].k = "int"
  /\ detalles = <<>>

\* C9: a line of the detail section whose first Importe text is absent or
\* unreadable, or whose description is empty, appends nothing and leaves
\* the total, the anchors and the classifier state as they are; the loop
\* goes on to the next line.
C9_BadLineDiscarded ==
  [][(Reenviada /\ ~BienFormadaDe[linea, columnas]) =>
       /\ Descarta
       /\ total_factura' = total_factura
       /\ columnas' = columnas
       /\ estado' = estado]_vars

\* header, a discarded line, then a line that yielded the only item
C9_Witness ==
  /\ pc = "bucle" /\ i = 3 /\ estado = "extrayendo_detalles"
  /\ found_cols_de[lineas[1]]
  /\ ~TieneAliasDe[lineas[2]]
  /\ ~BienFormadaDe[lineas[2], columnas]
  /\ ~TieneAliasDe[lineas[3]]
  /\ Len(detalles) = 1

\* C10 as stated: no exception leaves the processing of a document.
C10_NoUncaughtFault == pc # "excepcion"

(* ---------------------------------------------------------------------- *)
(* C11                                                                    *)
(* ---------------------------------------------------------------------- *)
\* the token without its '.' characters
SinPuntos(t) == SelectSeq(t, LAMBDA ch : ch # ".")

\* the position of the last ',' of a text, 0 when it has none
UltimaComa(t) ==
  IF \E n \in 1..Len(t) : t[n] = ","
  THEN CHOOSE n \in 1..Len(t) : t[n] = "," /\ \A m \in (n + 1)..Len(t) : t[m] # ","
  ELSE 0

\* the digits of a text, in order
SoloDigitos(t) == SelectSeq(t, EsDigito)

\* the value the normalisation rule gives: the digits of the token as the
\* coefficient, scaled by the number of characters after the last ',';
\* no value when the token has no digit at all
MontoEsperado(t) ==
  LET d == SinPuntos(t)
      u == UltimaComa(d)
  IN IF SoloDigitos(d) = <<>> THEN None
     ELSE [k |-> "fin", c |-> ValorDigitos(SoloDigitos(d)),
           e |-> IF u = 0 THEN 0 ELSE -(Len(d) - u)]

EsBuena(r) == (\E n \in 1..Len(r.text) : r.text[n] \notin Blancos) /\ r.conf >= 61

\* the document with the other words removed
SinMalas(d) == SelectSeq(d, EsBuena)

LineasDe(d) == AgruparLineas(Sorted(FiltrarPalabras(d), "top_left"))

\* C12: the lines of a document are the lines of the document without the
\* words whose trimmed text is empty or whose confidence is at most 60, and
\* every word of a line is the trimmed text and position of a word of the
\* document that is neither.
C12_BadWordsTakeNoPart ==
  pc = "agrupado" =>
    /\ lineas = LineasDe(SinMalas(data))
    /\ \A l \in 1..Len(lineas) : \A n \in 1..Len(lineas[l]) :
         \E m \in 1..Len(data) :
           /\ EsBuena(data[m])
           /\ lineas[l][n].left = data[m].left
           /\ lineas[l][n].top = data[m].top
           /\ Strip(data[m].text) = lineas[l][n].text
    /\ Len(Concat(lineas)) = Len(SinMalas(data))

\* a document with a word at confidence 60, a blank word and a good word
C12_Witness ==
  /\ pc = "agrupado"
  /\ data = <<r_x_60, r_Cant, r_blanco>>
  /\ lineas = << <<[text |-> w_Cant, left |-> 10, top |-> 100]>> >>

(* ---------------------------------------------------------------------- *)
(* C13                                                                    *)
(* ---------------------------------------------------------------------- *)
\* the processing of the document has ended
Terminado == pc \in {"reportado", "excepcion"}

\* the entry of the document carries an error text
NoResuelto == resultado.Error # ""

\* C13 as stated: when the processing of a document has ended, the report
\* holds its entry, and the entry is unresolved exactly when the image was
\* unreadable, no item was extracted or no total was detected.
C13_OneEntry ==
  Terminado =>
    /\ resultado # None
    /\ NoResuelto <=> (imagen = "None" \/ detalles = <<>> \/ total_factura = None)

(* ---------------------------------------------------------------------- *)
(* C14                                                                    *)
(* ---------------------------------------------------------------------- *)
\* the place of a column in the order Cant, Descripción, P.Unit, Importe
PosOrden(col) == CHOOSE n \in 1..Len(OrdenColumnas) : OrdenColumnas[n] = col

Distancia(p, cols, col) ==
  IF p.left >= cols[col] THEN p.left - cols[col] ELSE cols[col] - p.left

\* the anchored columns at minimum distance of the word that no column
\* earlier in the fixed order equals in distance
MasCercanas(p, cols) ==
  {c \in DOMAIN cols :
     /\ \A d \in DOMAIN cols : Distancia(p, cols, c) <= Distancia(p, cols, d)
     /\ \A d \in DOMAIN cols :
          Distancia(p, cols, d) = Distancia(p, cols, c) => PosOrden(c) <= PosOrden(d)}

\* the texts of the words of the line whose column is col, in line order
TextosEsperados(ln, cols) ==
  [col \in DOMAIN cols |-> Textos(SelectSeq(ln, LAMBDA p : col \in MasCercanas(p, cols)))]

TextosEsperadosDe ==
  [ln \in Lineas, cols \in ColumnasPosibles \ {<<>>} |-> TextosEsperados(ln, cols)]

UnaColumnaPorPalabraDe ==
  [ln \in Lineas, cols \in ColumnasPosibles \ {<<>>} |->
     \A n \in 1..Len(ln) : Cardinality(MasCercanas(ln[n], cols)) = 1]

claves_insertadas_de == [ln \in Lineas |-> claves_insertadas(ln)]

RECURSIVE SumaLen(_, _)
SumaLen(f, cs) ==
  IF cs = {} THEN 0
  ELSE LET c == CHOOSE c \in cs : TRUE IN Len(f[c]) + SumaLen(f, cs \ {c})

\* C14: on a line that reaches the word assignment every word goes to
\* exactly one anchored column, the one at minimum distance of its left
\* coordinate and, among several at that distance, the first in the order
\* Cant, Descripción, P.Unit, Importe, which is the order of the keys of
\* the anchor map whatever the order of the header words; the item the
\* line yields is built from the texts so assigned.
C14_NearestAnchor ==
  [][Reenviada =>
       /\ ClavesColumnas(columnas) = claves_insertadas_de[lineas[IndiceEncabezado]]
       /\ UnaColumnaPorPalabraDe[linea, columnas]
       /\ TextosDe[linea, columnas] = TextosEsperadosDe[linea, columnas]
       /\ SumaLen(TextosDe[linea, columnas], DOMAIN columnas) = Len(linea)
       /\ Agrega =>
            /\ Agregado[Descripcion]
                 = JoinSpace(TextosEsperadosDe[linea, columnas][Descripcion])
            /\ Agregado[Importe]
                 = normalizar_monto(TextosEsperadosDe[linea, columnas][Importe][1])]_vars

\* under the header Precio, Descripción, Importe the word at equal distance
\* of the P.Unit and the Descripción anchor went to Descripción
C14_Witness ==
  /\ pc = "bucle" /\ i = 2
  /\ lineas[1] = EncInvertido /\ lineas[2] = DetCompleto
  /\ columnas[PUnit] = 10 /\ columnas[Descripcion] = 90
  /\ Len(detalles) = 1
  /\ detalles[1][Descripcion] = JoinSpace(<<w_Tornillo, w_10_50>>)
  /\ detalles[1][PUnit] = [k |-> "fin", c |-> 2, e |-> 0]

(* ---------------------------------------------------------------------- *)
(* C15                                                                    *)
(* ---------------------------------------------------------------------- *)
\* how often a value occurs in a sequence
Veces(x, s) == Cardinality({n \in 1..Len(s) : s[n] = x})

\* the two sequences hold the same words the same number of times
MismasPalabras(s, t) ==
  /\ Len(s) = Len(t)
  /\ \A n \in 1..Len(s) : Veces(s[n], s) = Veces(s[n], t)

\* the places of the sorted words where a new line starts: the first word,
\* and every word 20 pixels or more below or above the word before it
Comienzos(ps) ==
  {n \in 1..Len(ps) :
     n = 1 \/ ps[n].top - ps[n - 1].top >= 20 \/ ps[n - 1].top - ps[n].top >= 20}

\* the place where the k-th line starts, and where it ends
ComienzoDe(ps, k) ==
  CHOOSE n \in Comienzos(ps) : Cardinality({m \in Comienzos(ps) : m <= n}) = k

FinDe(ps, k) ==
  IF k = Cardinality(Comienzos(ps)) THEN Len(ps) ELSE ComienzoDe(ps, k + 1) - 1

\* the place, inside its line, of the j-th word of a run of words: behind
\* the words of smaller left and the earlier words of equal left
LugarPorLeft(seg, j) ==
  Cardinality({m \in 1..Len(seg) : seg[m].left < seg[j].left})
    + Cardinality({m \in 1..(j - 1) : seg[m].left = seg[j].left}) + 1

\* C15: the lines partition the filtered words; with the words sorted by
\* (top, left), a line runs from a word that is the first one or lies 20
\* pixels or more from the word before it up to the next such word, so a
\* word joins the open line exactly when it is fewer than 20 pixels from the
\* previously appended word; lines come top to bottom and the words of a
\* line are ordered by left.
C15_LineGrouper ==
  pc = "agrupado" =>
    /\ MismasPalabras(palabras, FiltrarPalabras(data))
    /\ \A n \in 2..Len(palabras) :
         \/ palabras[n - 1].top < palabras[n].top
         \/ (palabras[n - 1].top = palabras[n].top /\ palabras[n - 1].left <= palabras[n].left)
    /\ MismasPalabras(Concat(lineas), palabras)
    /\ Len(lineas) = Cardinality(Comienzos(palabras))
    /\ \A k \in 1..Len(lineas) :
         LET seg == SubSeq(palabras, ComienzoDe(palabras, k), FinDe(palabras, k))
         IN /\ Len(lineas[k]) = Len(seg)
            /\ \A j \in 1..Len(seg) : lineas[k][LugarPorLeft(seg, j)] = seg[j]
            /\ \A j \in 2..Len(lineas[k]) : lineas[k][j - 1].left <= lineas[k][j].left
    /\ \A k \in 2..Len(lineas) :
         \A a \in 1..Len(lineas[k - 1]) : \A b \in 1..Len(lineas[k]) :
           lineas[k - 1][a].top < lineas[k][b].top

\* three words 15 pixels apart in a row form one line although the first
\* and the last are 30 pixels apart
C15_Witness ==
  /\ pc = "agrupado"
  /\ data = <<r_2_bajo, r_Importe, r_Cant>>
  /\ Len(lineas) = 1
  /\ Len(lineas[1]) = 3
  /\ lineas[1][2].top = 130 /\ lineas[1][3].top = 115

(* ---------------------------------------------------------------------- *)
(* C16                                                                    *)
(* ---------------------------------------------------------------------- *)
\* C16: once a line with a column alias has been consumed, no step of the
\* processing changes the anchor map, whatever the line it processes: a
\* later line with column aliases adds no anchor and moves none.
C16_AnchorsStable ==
  [][(pc = "bucle" /\ HayEncabezado) => columnas' = columnas]_vars

\* a header with all four aliases was consumed after the header Cant,
\* Precio and the anchors are those of the first one
C16_Witness ==
  /\ pc = "bucle" /\ i = 2
  /\ lineas[1] = EncCantPrecio /\ lineas[2] = EncCompleto
  /\ DOMAIN columnas = {Cant, PUnit}
  /\ columnas[Cant] = 10 /\ columnas[PUnit] = 90

(* ---------------------------------------------------------------------- *)
(* C17                                                                    *)
(* ---------------------------------------------------------------------- *)
\* C17 as stated: every item of the list has a quantity of 1 or more.
C17_QuantityAtLeastOne ==
  \A n \in 1..Len(detalles) : detalles[n][Cant] >= 1

(* ---------------------------------------------------------------------- *)
(* C18                                                                    *)
(* ---------------------------------------------------------------------- *)
\* C18 as stated: every item of the list has a unit price that is a
\* decimal value; no item holds None as its unit price.
C18_UnitPriceDefined ==
  \A n \in 1..Len(detalles) : detalles[n][PUnit] # None

(* ---------------------------------------------------------------------- *)
(* C19                                                                    *)
(* ---------------------------------------------------------------------- *)
\* the place of a state in SeekingColumns -> ExtractingDetails -> TotalFound
Rango(st) ==
  CASE st = "buscando_columnas" -> 1
    [] st = "extrayendo_detalles" -> 2
    [] st = "buscando_total" -> 3

\* a line after the header, among the consumed ones, holds 'total' and an
\* amount that normalizar_monto reads
TotalConsumido ==
  \E n \in (IndiceEncabezado + 1)..i :
    TieneTotalDe[lineas[n]] /\ montos_en_linea_de[lineas[n]] # <<>>

\* C19: no step moves the classifier state backwards in the order
\* SeekingColumns, ExtractingDetails, TotalFound, and a step that adds an
\* item processes a line that comes after the header line and before every
\* line after the header that holds 'total' and a parseable amount.
C19_ForwardOnly ==
  [][/\ Rango(estado') >= Rango(estado)
     /\ Agrega => (HayEncabezado /\ ~TotalConsumido)]_vars

\* header, detail line, total line: the state went through all three
\* states and the item of the line between header and total is kept
C19_Witness ==
  /\ pc = "bucle" /\ i = 3
  /\ lineas = <<EncCompleto, DetCompleto, TotalSimple>>
  /\ estado = "buscando_total"
  /\ Len(detalles) = 1
  /\ total_factura = [k |-> "fin", c |-> 2100, e |-> -2]

(* ---------------------------------------------------------------------- *)
(* C20                                                                    *)
(* ---------------------------------------------------------------------- *)
\* C20: the item list is non-empty only if the anchor map, which the
\* header line wrote, has both a Descripción and an Importe anchor; with
\* anchors of other columns only no line yields an item.
C20_NeedsDescAndImporte ==
  detalles # <<>> => {Descripcion, Importe} \subseteq DOMAIN columnas

\* the header Cant, Precio was followed by two complete detail lines and
\* the document was returned without items
C20_Witness ==
  /\ pc = "retornado"
  /\ lineas = <<EncCantPrecio, DetCompleto, DetSinCant>>
  /\ DOMAIN columnas = {Cant, PUnit}
  /\ detalles = <<>>

====
